---- MODULE Spec2Model ----
(***************************************************************************)
(* Model of EmailView (src/views/inbox/email.py): the choice of the body   *)
(* part of a stored email (find_body) and the rendering pipeline of        *)
(* get_context_data: the scan of the MIME parts, the raw body, Premailer,  *)
(* the lxml Cleaner, the image decision, the image scrubber and the final  *)
(* decode.                                                                 *)
(*                                                                         *)
(* Python values: None is the empty sequence and a present value x is      *)
(* <<x>>, so that an optional part, flag or GET parameter is a sequence of *)
(* length at most one.  A body is a term [data, ops]: the bytes of the     *)
(* MIME part it was taken from and the library transformations applied to  *)
(* them so far (Premailer, Cleaner and lxml are libraries whose output is  *)
(* not interpreted).                                                       *)
(***************************************************************************)
EXTENDS Integers, Sequences, FiniteSets, TLC

\* Bounds of the model.
MaxParts == 2        \* parts stored for one email
MaxLft == 3          \* lft values of the arguments handed to find_body

None == <<>>
Some(x) == <<x>>

VARIABLES
    parts,              \* self.object.parts.all(): the stored MIME parts
    prefer_html_email,  \* request.user.userprofile.flags.prefer_html_email
    GET_imgDisplay,     \* None until read; Some(None) absent; Some(Some(s))
    flags_ask_images,   \* None until read; Some(b)
    flags_display_images, \* None until read; Some(b)
    i,                  \* position of the for loop over the parts
    charset,            \* part.charset, set by the loop (index -> charset)
    html,               \* index of the first text/html part, 0 for None
    plain,              \* index of the first text/plain part, 0 for None
    attachments,        \* list of (part index, part_head)
    found,              \* what find_body returned to get_context_data
    email_dict,         \* the keys "body" and "charset" of email_dict
    plain_message,
    img_display,
    ask_images,
    user_messages,      \* django.contrib.messages of this request
    premailer,          \* outcome of Premailer(...).transform()
    cleaner,            \* outcome of cleaner.clean_html()
    scrubber,           \* outcome of the lxml image filter
    exc,                \* the exception that left get_context_data, and where
    pc,
    arg_html,           \* arguments and result of a direct find_body call
    arg_plain,
    ret

vars == <<parts, prefer_html_email, GET_imgDisplay, flags_ask_images,
          flags_display_images, i, charset, html, plain, attachments, found,
          email_dict, plain_message, img_display, ask_images, user_messages,
          premailer, cleaner, scrubber, exc, pc, arg_html, arg_plain, ret>>

----
\* Header parameters and MIME parts

\* dict(pairs): later pairs replace earlier ones with the same key
RECURSIVE dict(_)
dict(pairs) ==
    IF pairs = <<>> THEN <<>>
    ELSE LET rest == dict(SubSeq(pairs, 1, Len(pairs) - 1))
             last == pairs[Len(pairs)]
         IN  SelectSeq(rest, LAMBDA kv : kv[1] # last[1]) \o <<last>>

\* d.update(e)
update(d, e) == SelectSeq(d, LAMBDA kv : \A k \in 1..Len(e) : e[k][1] # kv[1]) \o e

has(d, key) == \E k \in 1..Len(d) : d[k][1] = key

\* d.get(key, default)
get(d, key, default) ==
    IF has(d, key) THEN d[CHOOSE k \in 1..Len(d) : d[k][1] = key][2] ELSE default

\* A Content-Type header after split(";", 1), its parameter string given as
\* the pairs HEADER_PARAMS finds in it.
ContentType(main, cs) ==
    IF cs = "" THEN <<main>> ELSE <<main, << <<"charset", cs>> >> >>

Charsets == {"", "latin-1", "x-bogus"}

HtmlParts ==
    { [content_type |-> ContentType("text/html", cs), dispos |-> <<>>,
       parent |-> p, data |-> <<60, 255>>] : cs \in Charsets, p \in {0, 1} }

PlainParts ==
    { [content_type |-> ContentType("text/plain", cs), dispos |-> <<>>,
       parent |-> p, data |-> d] :
      cs \in Charsets, p \in {0, 1}, d \in {<<>>, <<65, 255>>} }

ContainerParts ==
    { [content_type |-> <<"multipart/alternative">>, dispos |-> <<>>,
       parent |-> 0, data |-> <<>>] }

OtherParts ==
    { [content_type |-> <<"image/png", << <<"name", "a.png">> >> >>, dispos |-> d,
       parent |-> 0, data |-> <<255>>] :
      d \in {<<>>, << <<"filename", "b.png">>, <<"charset", "latin-1">> >>} }

PartPool == HtmlParts \cup PlainParts \cup ContainerParts \cup OtherParts

\* The parts of one email in storage order; lft and rgt follow the position.
Emails ==
    UNION { { [k \in 1..n |-> [lft |-> 2 * k, rgt |-> 2 * k + 1] @@ s[k]] :
              s \in [1..n -> PartPool] } : n \in 0..MaxParts }

\* the main types of the model that start with "multipart" or "message"
IsContainer(part) == part.content_type[1] \in {"multipart/alternative"}

\* params of one part: Content-Type parameters, updated by Content-Disposition
ParamsOf(part) ==
    update(IF Len(part.content_type) >= 2 THEN dict(part.content_type[2]) ELSE <<>>,
           dict(part.dispos))

FilenameOf(params) ==
    IF has(params, "filename") THEN get(params, "filename", "")
    ELSE IF has(params, "name") THEN get(params, "name", "")
    ELSE ""

----
\* find_body

\* find_body with "or" for "and" in the first test
find_body_or(h, p) ==
    IF h = None \/ p = None THEN None
    ELSE IF h[1].parent = p[1].parent THEN Some(~prefer_html_email)
    ELSE IF h[1].lft < p[1].lft THEN Some(FALSE)
    ELSE Some(TRUE)

\* find_body without the sibling test
find_body_position(h, p) ==
    IF h = None /\ p = None THEN None
    ELSE IF h = None THEN Some(TRUE)
    ELSE IF p = None THEN Some(FALSE)
    ELSE IF h[1].lft < p[1].lft THEN Some(FALSE)
    ELSE Some(TRUE)

\* find_body with the position test the wrong way round
find_body_reversed(h, p) ==
    IF h = None /\ p = None THEN None
    ELSE IF h = None THEN Some(TRUE)
    ELSE IF p = None THEN Some(FALSE)
    ELSE IF h[1].parent = p[1].parent THEN Some(~prefer_html_email)
    ELSE IF h[1].lft > p[1].lft THEN Some(FALSE)
    ELSE Some(TRUE)

\* find_body with "<=" for "<"
find_body_le(h, p) ==
    IF h = None /\ p = None THEN None
    ELSE IF h = None THEN Some(TRUE)
    ELSE IF p = None THEN Some(FALSE)
    ELSE IF h[1].parent = p[1].parent THEN Some(~prefer_html_email)
    ELSE IF h[1].lft <= p[1].lft THEN Some(FALSE)
    ELSE Some(TRUE)

\* html and plain are None or Some(part); the result is None, Some(TRUE) for a
\* plaintext body or Some(FALSE) for an html body.
find_body(h, p) ==
    IF h = None /\ p = None THEN None
    ELSE IF h = None THEN Some(TRUE)
    ELSE IF p = None THEN Some(FALSE)
    ELSE IF h[1].parent = p[1].parent THEN Some(~prefer_html_email)
    ELSE IF h[1].lft < p[1].lft THEN Some(FALSE)
    ELSE Some(TRUE)

----
\* get_context_data

WARNING_PARSE == "Part of this message could not be parsed - it may not display correctly"
ERROR_INVALID == "This email contained invalid HTML and could not be displayed"

PartAt(k) == IF k = 0 THEN None ELSE Some(parts[k])

\* str(part.body.data): the bytes of the part, no library applied yet
Raw(k) == [data |-> parts[k].data, ops |-> <<>>]

Empty == [data |-> <<>>, ops |-> <<>>]

Applied(body, op) == [body EXCEPT !.ops = Append(@, op)]

\* RawBody taking the first of any number of attachments
RawBody_first(plain_msg) ==
    IF plain_msg = None THEN
        IF Len(attachments) >= 1
        THEN [body |-> Raw(attachments[1].part),
              charset |-> charset[attachments[1].part], plain_message |-> TRUE]
        ELSE [body |-> Empty, charset |-> "utf-8", plain_message |-> TRUE]
    ELSE IF plain_msg[1]
    THEN [body |-> Raw(plain), charset |-> charset[plain], plain_message |-> TRUE]
    ELSE [body |-> Raw(html), charset |-> charset[html], plain_message |-> FALSE]

\* "set raw body": email_dict["body"], email_dict["charset"], plain_message
RawBody(plain_msg) ==
    IF plain_msg = None THEN
        IF Len(attachments) = 1
        THEN [body |-> Raw(attachments[1].part),
              charset |-> charset[attachments[1].part], plain_message |-> TRUE]
        ELSE [body |-> Empty, charset |-> "utf-8", plain_message |-> TRUE]
    ELSE IF plain_msg[1]
    THEN [body |-> Raw(plain), charset |-> charset[plain], plain_message |-> TRUE]
    ELSE [body |-> Raw(html), charset |-> charset[html], plain_message |-> FALSE]

\* except (etree.LxmlError, ValueError)
Caught(e) == e \in {"LxmlError", "ValueError"}

\* Recover leaving email_dict["charset"] as it was
Recover_charset ==
    IF plain # 0 /\ Len(parts[plain].data) > 0
    THEN [body |-> Raw(plain), charset |-> email_dict.charset]
    ELSE [body |-> Empty, charset |-> "utf-8"]

\* the body of both except clauses: the plaintext part or nothing
Recover ==
    IF plain # 0 /\ Len(parts[plain].data) > 0
    THEN [body |-> Raw(plain), charset |-> charset[plain]]
    ELSE [body |-> Empty, charset |-> "utf-8"]

\* int(s) for the parameter values of the model: None is a ValueError
int(s) == IF s = "1" THEN Some(1) ELSE IF s = "0" THEN Some(0) ELSE None

ImgDisplayValues == {None, Some("1"), Some("0"), Some("x")}

\* "imgDisplay" in GET and int(GET["imgDisplay"]) raises
OverrideRaises(pm, g) == ~pm /\ g # None /\ int(g[1]) = None

\* ImageDecision with the profile's ask_images tested before the override
ImageDecision_ask_first(pm, g, ask, display) ==
    IF pm THEN [img_display |-> TRUE, ask_images |-> FALSE]
    ELSE IF ask THEN [img_display |-> FALSE, ask_images |-> TRUE]
    ELSE IF g # None /\ int(g[1]) = Some(1)
    THEN [img_display |-> TRUE, ask_images |-> FALSE]
    ELSE [img_display |-> display, ask_images |-> FALSE]

\* "GET params for users with `ask_image` set in their profile"
ImageDecision(pm, g, ask, display) ==
    IF pm THEN [img_display |-> TRUE, ask_images |-> FALSE]
    ELSE IF g # None /\ int(g[1]) = Some(1)
    THEN [img_display |-> TRUE, ask_images |-> FALSE]
    ELSE IF ask THEN [img_display |-> FALSE, ask_images |-> TRUE]
    ELSE [img_display |-> display, ask_images |-> FALSE]

\* which of the three inputs the if/elif chain evaluates
ReadsOverride(pm) == ~pm
ReadsAsk(pm, g) == ~pm /\ ~(g # None /\ int(g[1]) = Some(1))
ReadsDisplay(pm, g, ask) == ReadsAsk(pm, g) /\ ~ask

\* bytes.decode("utf-8", "replace") for one- and two-byte sequences; every
\* other byte becomes U+FFFD
RECURSIVE utf_8(_)
utf_8(b) ==
    IF b = <<>> THEN <<>>
    ELSE IF b[1] < 128 THEN <<b[1]>> \o utf_8(Tail(b))
    ELSE IF b[1] >= 194 /\ b[1] <= 223 /\ Len(b) >= 2 /\ b[2] >= 128 /\ b[2] <= 191
    THEN <<(b[1] - 192) * 64 + (b[2] - 128)>> \o utf_8(Tail(Tail(b)))
    ELSE <<65533>> \o utf_8(Tail(b))

\* bytes.decode("latin-1"): byte n is code point n
latin_1(b) == [k \in 1..Len(b) |-> b[k]]

Codecs == {"utf-8", "latin-1"}

\* unicode(body, charset, errors="replace"): None is a LookupError
unicode(body, cs) ==
    IF cs \notin Codecs THEN None
    ELSE Some([text |-> IF cs = "utf-8" THEN utf_8(body.data) ELSE latin_1(body.data),
               ops |-> body.ops])

Init ==
    /\ parts \in Emails
    /\ prefer_html_email \in BOOLEAN
    /\ GET_imgDisplay = None
    /\ flags_ask_images = None
    /\ flags_display_images = None
    /\ i = 1
    /\ charset = [k \in 1..Len(parts) |-> ""]
    /\ html = 0
    /\ plain = 0
    /\ attachments = <<>>
    /\ found = None
    /\ email_dict = [body |-> Empty, charset |-> ""]
    /\ plain_message = FALSE
    /\ img_display = FALSE
    /\ ask_images = FALSE
    /\ user_messages = <<>>
    /\ premailer = "notrun"
    /\ cleaner = "notrun"
    /\ scrubber = "notrun"
    /\ exc = None
    /\ pc = "parts"
    /\ arg_html = None
    /\ arg_plain = None
    /\ ret = None

\* for part in parts: a multipart or message part is skipped
SkipContainer ==
    /\ pc = "parts" /\ i <= Len(parts)
    /\ IsContainer(parts[i])
    /\ i' = i + 1
    /\ UNCHANGED <<parts, prefer_html_email, GET_imgDisplay, flags_ask_images,
                   flags_display_images, charset, html, plain, attachments, found,
                   email_dict, plain_message, img_display, ask_images,
                   user_messages, premailer, cleaner, scrubber, exc, pc,
                   arg_html, arg_plain, ret>>

\* for part in parts: filename, charset, first html and plain part, attachments
ClassifyPart ==
    /\ pc = "parts" /\ i <= Len(parts)
    /\ ~IsContainer(parts[i])
    /\ LET params == ParamsOf(parts[i])
           main == parts[i].content_type[1]
       IN  /\ charset' = [charset EXCEPT ![i] = get(params, "charset", "utf-8")]
           /\ html' = IF html = 0 /\ main = "text/html" THEN i ELSE html
           /\ plain' = IF html = 0 /\ main = "text/html" THEN plain
                       ELSE IF plain = 0 /\ main = "text/plain" THEN i ELSE plain
           /\ attachments' = Append(attachments,
                  [part |-> i, content_type |-> parts[i].content_type,
                   filename |-> FilenameOf(params)])
    /\ i' = i + 1
    /\ UNCHANGED <<parts, prefer_html_email, GET_imgDisplay, flags_ask_images,
                   flags_display_images, found, email_dict, plain_message,
                   img_display, ask_images, user_messages, premailer, cleaner,
                   scrubber, exc, pc, arg_html, arg_plain, ret>>

\* plain_message = self.find_body(html, plain) and the raw body
SetRawBody ==
    /\ pc = "parts" /\ i > Len(parts)
    /\ found' = find_body(PartAt(html), PartAt(plain))
    /\ LET raw == RawBody(found')
       IN  /\ email_dict' = [body |-> raw.body, charset |-> raw.charset]
           /\ plain_message' = raw.plain_message
           /\ pc' = IF raw.plain_message THEN "images" ELSE "premailer"
    /\ UNCHANGED <<parts, prefer_html_email, GET_imgDisplay, flags_ask_images,
                   flags_display_images, i, charset, html, plain, attachments,
                   img_display, ask_images, user_messages, premailer, cleaner,
                   scrubber, exc, arg_html, arg_plain, ret>>

\* Premailer(body).transform(); any Exception is caught and reported
Inline ==
    /\ pc = "premailer"
    /\ \E outcome \in {"ok", "Exception"} :
        /\ premailer' = outcome
        /\ IF outcome = "ok"
           THEN /\ email_dict' = [email_dict EXCEPT
                                    !.body = Applied(@, "Premailer.transform")]
                /\ UNCHANGED user_messages
           ELSE /\ user_messages' = Append(user_messages, WARNING_PARSE)
                /\ UNCHANGED email_dict
    /\ pc' = "clean"
    /\ UNCHANGED <<parts, prefer_html_email, GET_imgDisplay, flags_ask_images,
                   flags_display_images, i, charset, html, plain, attachments,
                   found, plain_message, img_display, ask_images, cleaner,
                   scrubber, exc, arg_html, arg_plain, ret>>

\* cleaner.clean_html(body); LxmlError and ValueError are caught
Clean ==
    /\ pc = "clean"
    /\ \E outcome \in {"ok", "LxmlError", "ValueError", "Exception"} :
        /\ cleaner' = outcome
        /\ IF outcome = "ok"
           THEN /\ email_dict' = [email_dict EXCEPT !.body = Applied(@, "clean_html")]
                /\ pc' = "images"
                /\ UNCHANGED <<plain_message, user_messages, exc>>
           ELSE IF Caught(outcome)
           THEN /\ email_dict' = Recover
                /\ plain_message' = TRUE
                /\ user_messages' = Append(user_messages, ERROR_INVALID)
                /\ pc' = "images"
                /\ UNCHANGED exc
           ELSE /\ exc' = Some([type |-> outcome, at |-> "clean_html"])
                /\ pc' = "raised"
                /\ UNCHANGED <<email_dict, plain_message, user_messages>>
    /\ UNCHANGED <<parts, prefer_html_email, GET_imgDisplay, flags_ask_images,
                   flags_display_images, i, charset, html, plain, attachments,
                   found, img_display, ask_images, premailer, scrubber,
                   arg_html, arg_plain, ret>>

\* img_display and ask_images from plain_message, request.GET and the profile
ImagePolicy ==
    /\ pc = "images"
    /\ \E g \in ImgDisplayValues, ask \in BOOLEAN, display \in BOOLEAN :
        /\ GET_imgDisplay' = IF ReadsOverride(plain_message) THEN Some(g) ELSE None
        /\ IF OverrideRaises(plain_message, g)
           THEN /\ exc' = Some([type |-> "ValueError", at |-> "int"])
                /\ pc' = "raised"
                /\ UNCHANGED <<flags_ask_images, flags_display_images,
                               img_display, ask_images>>
           ELSE LET d == ImageDecision(plain_message, g, ask, display)
                IN  /\ flags_ask_images' =
                           IF ReadsAsk(plain_message, g) THEN Some(ask) ELSE None
                    /\ flags_display_images' =
                           IF ReadsDisplay(plain_message, g, ask)
                           THEN Some(display) ELSE None
                    /\ img_display' = d.img_display
                    /\ ask_images' = d.ask_images
                    /\ pc' = IF d.img_display THEN "unicode" ELSE "filter"
                    /\ UNCHANGED exc
    /\ UNCHANGED <<parts, prefer_html_email, i, charset, html, plain, attachments,
                   found, email_dict, plain_message, user_messages, premailer,
                   cleaner, scrubber, arg_html, arg_plain, ret>>

\* "filter images if we need to"; LxmlError and ValueError are caught
FilterImages ==
    /\ pc = "filter"
    /\ \E outcome \in {"ok", "LxmlError", "ValueError", "Exception"} :
        /\ scrubber' = outcome
        /\ IF outcome = "ok"
           THEN /\ email_dict' = [email_dict EXCEPT !.body = Applied(@, "del src")]
                /\ pc' = "unicode"
                /\ UNCHANGED exc
           ELSE IF Caught(outcome)
           THEN /\ email_dict' = Recover
                /\ pc' = "unicode"
                /\ UNCHANGED exc
           ELSE /\ exc' = Some([type |-> outcome, at |-> "filter"])
                /\ pc' = "raised"
                /\ UNCHANGED email_dict
    /\ UNCHANGED <<parts, prefer_html_email, GET_imgDisplay, flags_ask_images,
                   flags_display_images, i, charset, html, plain, attachments,
                   found, plain_message, img_display, ask_images, user_messages,
                   premailer, cleaner, arg_html, arg_plain, ret>>

\* "convert to unicode as late as possible", then the context is returned
Decode ==
    /\ pc = "unicode"
    /\ LET u == unicode(email_dict.body, email_dict.charset)
       IN  IF u = None
           THEN /\ exc' = Some([type |-> "LookupError", at |-> "unicode"])
                /\ pc' = "raised"
                /\ UNCHANGED email_dict
           ELSE /\ email_dict' = [email_dict EXCEPT !.body = u[1]]
                /\ pc' = "done"
                /\ UNCHANGED exc
    /\ UNCHANGED <<parts, prefer_html_email, GET_imgDisplay, flags_ask_images,
                   flags_display_images, i, charset, html, plain, attachments,
                   found, plain_message, img_display, ask_images, user_messages,
                   premailer, cleaner, scrubber, arg_html, arg_plain, ret>>

Next ==
    \/ SkipContainer
    \/ ClassifyPart
    \/ SetRawBody
    \/ Inline
    \/ Clean
    \/ ImagePolicy
    \/ FilterImages
    \/ Decode

Spec == Init /\ [][Next]_vars

----
\* A call of find_body on its own: every pair of optional parts, siblings or
\* not, with equal or different lft values.

SelectParts(main) ==
    { [content_type |-> <<main>>, dispos |-> <<>>, parent |-> p, data |-> <<>>,
       lft |-> l, rgt |-> r] :
      p \in {0, 1}, l \in 1..MaxLft, r \in 2..(MaxLft + 1) }

OptionalParts(main) ==
    {None} \cup { Some(x) : x \in { y \in SelectParts(main) : y.lft < y.rgt } }

InitSelect ==
    /\ parts = <<>>
    /\ prefer_html_email \in BOOLEAN
    /\ GET_imgDisplay = None
    /\ flags_ask_images = None
    /\ flags_display_images = None
    /\ i = 1
    /\ charset = <<>>
    /\ html = 0
    /\ plain = 0
    /\ attachments = <<>>
    /\ found = None
    /\ email_dict = [body |-> Empty, charset |-> ""]
    /\ plain_message = FALSE
    /\ img_display = FALSE
    /\ ask_images = FALSE
    /\ user_messages = <<>>
    /\ premailer = "notrun"
    /\ cleaner = "notrun"
    /\ scrubber = "notrun"
    /\ exc = None
    /\ pc = "call"
    /\ arg_html \in OptionalParts("text/html")
    /\ arg_plain \in OptionalParts("text/plain")
    /\ ret = None

CallFindBody ==
    /\ pc = "call"
    /\ ret' = find_body(arg_html, arg_plain)
    /\ pc' = "returned"
    /\ UNCHANGED <<parts, prefer_html_email, GET_imgDisplay, flags_ask_images,
                   flags_display_images, i, charset, html, plain, attachments,
                   found, email_dict, plain_message, img_display, ask_images,
                   user_messages, premailer, cleaner, scrubber, exc,
                   arg_html, arg_plain>>

NextSelect == CallFindBody

SpecSelect == InitSelect /\ [][NextSelect]_vars

----
\* Properties

Returned == pc = "returned"
BothPresent == arg_html # None /\ arg_plain # None
Siblings == BothPresent /\ arg_html[1].parent = arg_plain[1].parent
Apart == BothPresent /\ arg_html[1].parent # arg_plain[1].parent

\* C1: with at most one of the two parts present the result is fixed by which
\* one is present: None for neither, plaintext (True) for a plain part alone,
\* html (False) for an html part alone, whatever the preference and positions.
C1_OnePartAlone ==
    Returned /\ (arg_html = None \/ arg_plain = None) =>
        ret = IF arg_html = None /\ arg_plain = None THEN None
              ELSE IF arg_html = None THEN Some(TRUE)
              ELSE Some(FALSE)

C1_Witness ==
    /\ Returned /\ arg_html = None /\ arg_plain # None
    /\ prefer_html_email /\ arg_plain[1].parent = 1 /\ ret = Some(TRUE)

\* C2: two parts with the same parent (None included): html when
\* prefer_html_email is set and plaintext when it is not, whatever lft and rgt
\* the two parts have.
C2_SiblingsFollowPreference ==
    Returned /\ Siblings => ret = Some(~prefer_html_email)

C2_Witness ==
    /\ Returned /\ Siblings /\ prefer_html_email
    /\ arg_html[1].lft > arg_plain[1].lft /\ ret = Some(FALSE)

\* C3: two parts with different parents and different lft values: the part
\* with the smaller lft is chosen, for both values of prefer_html_email.
C3_LowerLftWins ==
    Returned /\ Apart /\ arg_html[1].lft # arg_plain[1].lft =>
        ret = Some(arg_plain[1].lft < arg_html[1].lft)

C3_Witness ==
    /\ Returned /\ Apart /\ prefer_html_email
    /\ arg_plain[1].lft < arg_html[1].lft /\ ret = Some(TRUE)

\* C9 as stated: two parts with different parents and equal lft values give
\* html, for both values of prefer_html_email.
C9_TieGivesHtml ==
    Returned /\ Apart /\ arg_html[1].lft = arg_plain[1].lft => ret = Some(FALSE)

\* C9 amended: two parts with different parents and equal lft values give
\* plaintext (True), for both values of prefer_html_email.
C9_TieGivesPlain ==
    Returned /\ Apart /\ arg_html[1].lft = arg_plain[1].lft => ret = Some(TRUE)

C9_Witness ==
    /\ Returned /\ Apart /\ arg_html[1].lft = arg_plain[1].lft
    /\ prefer_html_email /\ ret = Some(TRUE)

\* get_context_data has set the raw body
AfterRaw == pc \in {"premailer", "clean", "images", "filter", "unicode", "done", "raised"}

\* the charset the headers of a part give
HeaderCharset(k) == get(ParamsOf(parts[k]), "charset", "utf-8")

\* the text a codec of the model makes of bytes
Text(data, cs) == IF cs = "latin-1" THEN data ELSE utf_8(data)

Count(seq, x) == Cardinality({ k \in 1..Len(seq) : seq[k] = x })

\* the body is the bytes of part k untouched: before the decode as bytes,
\* in the returned context as their text under the charset cs
IsPartVerbatim(k, cs) ==
    IF pc = "done"
    THEN email_dict.body = [text |-> Text(parts[k].data, cs), ops |-> <<>>]
    ELSE email_dict.body = [data |-> parts[k].data, ops |-> <<>>]

IsEmptyBody ==
    IF pc = "done"
    THEN email_dict.body = [text |-> <<>>, ops |-> <<>>]
    ELSE email_dict.body = [data |-> <<>>, ops |-> <<>>]

\* the body and charset both except clauses are meant to leave
IsPlainFallback ==
    IF plain # 0 /\ parts[plain].data # <<>>
    THEN /\ email_dict.charset = HeaderCharset(plain)
         /\ IsPartVerbatim(plain, HeaderCharset(plain))
    ELSE /\ email_dict.charset = "utf-8"
         /\ IsEmptyBody

\* C4: when find_body returned None the message is plain, the body is the
\* bytes of the only non-container part with that part's charset, or empty
\* with utf-8 when there is not exactly one such part; Premailer, the Cleaner
\* and the image filter do not run and no message is emitted.
C4_NoBodyFallback ==
    AfterRaw /\ found = None =>
        /\ plain_message
        /\ premailer = "notrun" /\ cleaner = "notrun" /\ scrubber = "notrun"
        /\ user_messages = <<>>
        /\ pc \in {"unicode", "done"} => img_display /\ ~ask_images
        /\ IF Len(attachments) = 1
           THEN /\ email_dict.charset = HeaderCharset(attachments[1].part)
                /\ IsPartVerbatim(attachments[1].part,
                                  HeaderCharset(attachments[1].part))
           ELSE /\ email_dict.charset = "utf-8"
                /\ IsEmptyBody

C4_Witness ==
    /\ pc = "done" /\ found = None /\ Len(parts) = 2 /\ Len(attachments) = 1
    /\ attachments[1].part = 2
    /\ email_dict.charset = "latin-1"
    /\ email_dict.body = [text |-> <<255>>, ops |-> <<>>]

\* C5: when the body is html and the Cleaner fails with LxmlError or
\* ValueError, the message becomes plain, the body is the plain part's bytes
\* under the plain part's charset when there is a non-empty plain part and
\* empty otherwise, the "invalid HTML" error is emitted exactly once, and the
\* image filter does not run.
C5_CleanFailureFallsBack ==
    AfterRaw /\ found = Some(FALSE) /\ Caught(cleaner) =>
        /\ plain_message
        /\ IsPlainFallback
        /\ Count(user_messages, ERROR_INVALID) = 1
        /\ scrubber = "notrun"
        /\ pc \in {"unicode", "done"} => img_display /\ ~ask_images

C5_Witness ==
    /\ pc = "done" /\ found = Some(FALSE) /\ cleaner = "LxmlError"
    /\ plain # 0 /\ HeaderCharset(plain) = "latin-1" /\ HeaderCharset(html) = "utf-8"
    /\ premailer = "Exception"
    /\ email_dict.body = [text |-> <<65, 255>>, ops |-> <<>>]

\* C6: an LxmlError or ValueError of the image filter is handled as one of
\* the Cleaner is: the body falls back to the plain part or to nothing, the
\* message becomes plain with ask_images false, and the "invalid HTML" error
\* is emitted.
C6_FilterFailureSamePolicy ==
    pc \in {"unicode", "done"} /\ Caught(scrubber) =>
        /\ IsPlainFallback
        /\ plain_message
        /\ ~ask_images
        /\ Count(user_messages, ERROR_INVALID) >= 1

\* the decision has been made
Decided == pc \in {"filter", "unicode", "done"}

\* C7: the image decision by priority: a plain message shows images and
\* does not ask; else an imgDisplay parameter equal to 1 shows them and does
\* not ask; else ask_images hides them and asks; else display_images decides
\* and nothing is asked.  The image filter runs only when images are hidden.
C7_ImageDecisionPriority ==
    /\ Decided =>
        IF plain_message THEN img_display /\ ~ask_images
        ELSE IF GET_imgDisplay = Some(Some("1")) THEN img_display /\ ~ask_images
        ELSE IF flags_ask_images = Some(TRUE) THEN ~img_display /\ ask_images
        ELSE /\ flags_display_images # None
             /\ img_display = flags_display_images[1]
             /\ ~ask_images
    /\ scrubber # "notrun" => ~img_display /\ ~plain_message

C7_Witness ==
    /\ pc = "done" /\ ~plain_message
    /\ GET_imgDisplay = Some(Some("0")) /\ flags_ask_images = Some(TRUE)
    /\ ask_images /\ ~img_display /\ scrubber = "ok"

\* C8: whatever Premailer, the Cleaner and the image filter do and whatever
\* charset the headers give, no exception of theirs or of the decode leaves
\* get_context_data.
C8_NoErrorEscapes ==
    ~(pc = "raised" /\ exc # None /\ exc[1].at \in {"clean_html", "filter", "unicode"})

\* C10: a context in html mode carries the output of a successful Cleaner
\* run, with or without the image filter applied; a body replaced by the
\* plain part or by nothing comes with plain mode.
C10_HtmlModeIsCleaned ==
    pc = "done" /\ ~plain_message =>
        /\ cleaner = "ok"
        /\ email_dict.body.ops \in
               { pre \o <<"clean_html">> \o post :
                   pre \in {<<>>, <<"Premailer.transform">>},
                   post \in {<<>>, <<"del src">>} }

====
